---- MODULE Spec2Model ----
(***************************************************************************)
(* Model of the premarket signals bot (src/signals_bot.py,                 *)
(* src/strategies.py, src/data_fetcher.py, src/config.py).                 *)
(*                                                                         *)
(* Python floats are modelled as exact rationals [n |-> Int, d |-> Nat]    *)
(* kept in lowest terms with d > 0; the record with d = 0 stands for       *)
(* Python's None.  Float rounding error (one unit in the last place) is    *)
(* outside the model; float division by zero raises ZeroDivisionError as   *)
(* it does in Python.                                                      *)
(***************************************************************************)
EXTENDS Integers, Sequences, FiniteSets, TLC

----------------------------------------------------------------------------
(* Rational arithmetic standing for Python float arithmetic.               *)

RECURSIVE Gcd(_, _)
Gcd(a, b) == IF b = 0 THEN a ELSE Gcd(b, a % b)

IAbs(i) == IF i < 0 THEN -i ELSE i

Pow10(k) == IF k = 0 THEN 1 ELSE IF k = 1 THEN 10 ELSE IF k = 2 THEN 100 ELSE 1000

\* n/d in lowest terms, d > 0 required
R(n, d) == LET g == Gcd(IAbs(n), d) IN [n |-> n \div g, d |-> d \div g]

Z(i) == [n |-> i, d |-> 1]

PyNone == [n |-> 0, d |-> 0]

IsNone(x) == x.d = 0

Lcm(a, b) == (a \div Gcd(a, b)) * b

RAdd(x, y) == LET l == Lcm(x.d, y.d) IN R(x.n * (l \div x.d) + y.n * (l \div y.d), l)

RNeg(x) == [n |-> -x.n, d |-> x.d]

RSub(x, y) == RAdd(x, RNeg(y))

RMul(x, y) ==
    LET g1 == Gcd(IAbs(x.n), y.d)
        g2 == Gcd(IAbs(y.n), x.d)
    IN  IF x.n = 0 \/ y.n = 0 THEN Z(0)
        ELSE [n |-> (x.n \div g1) * (y.n \div g2), d |-> (x.d \div g2) * (y.d \div g1)]

\* x / y for y # 0 (the callers decide what a zero divisor does)
RDiv(x, y) ==
    LET inv == IF y.n < 0 THEN [n |-> -y.d, d |-> -y.n] ELSE [n |-> y.d, d |-> y.n]
    IN  RMul(x, inv)

RLt(x, y) == LET l == Lcm(x.d, y.d) IN x.n * (l \div x.d) < y.n * (l \div y.d)

RLe(x, y) == x = y \/ RLt(x, y)

RAbs(x) == [n |-> IAbs(x.n), d |-> x.d]

RMin(x, y) == IF RLt(y, x) THEN y ELSE x

RMax(x, y) == IF RLt(x, y) THEN y ELSE x

IsZero(x) == x.n = 0

\* Python int(x): truncation toward zero
PyInt(x) == IF x.n >= 0 THEN x.n \div x.d ELSE -((-x.n) \div x.d)

\* Python round(x, k): nearest multiple of 10^-k, ties to even
PyRound(x, k) ==
    LET s   == RMul(x, Z(Pow10(k)))
        f   == s.n \div s.d
        rem == s.n % s.d
        q   == IF 2 * rem < s.d THEN f
               ELSE IF 2 * rem > s.d THEN f + 1
               ELSE IF f % 2 = 0 THEN f ELSE f + 1
    IN  R(q, Pow10(k))

----------------------------------------------------------------------------
(* config.py: TradingConfig and the module-level instance trading_config.  *)

DefaultWeights ==
    [gap_momentum |-> R(4, 10), volume_breakout |-> R(3, 10), premarket_momentum |-> R(3, 10)]

\* a TradingConfig whose default min_risk_reward_ratio is 1.5
DefaultConfigAtThreeHalves ==
    [max_risk_per_trade          |-> R(2, 100),
     min_risk_reward_ratio       |-> R(3, 2),
     max_position_size           |-> R(10, 100),
     volume_threshold_multiplier |-> Z(2),
     gap_threshold_percent       |-> Z(3),
     min_price                   |-> Z(1),
     max_price                   |-> Z(500),
     strategy_weights            |-> DefaultWeights]

\* TradingConfig() with the dataclass defaults
DefaultConfig ==
    [max_risk_per_trade          |-> R(2, 100),
     min_risk_reward_ratio       |-> Z(2),
     max_position_size           |-> R(10, 100),
     volume_threshold_multiplier |-> Z(2),
     gap_threshold_percent       |-> Z(3),
     min_price                   |-> Z(1),
     max_price                   |-> Z(500),
     strategy_weights            |-> DefaultWeights]

\* TradingConfig(...) as built by conservative_example
ConservativeConfig ==
    [DefaultConfig EXCEPT !.max_risk_per_trade          = R(1, 100),
                          !.min_risk_reward_ratio       = Z(3),
                          !.max_position_size           = R(5, 100),
                          !.gap_threshold_percent       = Z(5),
                          !.volume_threshold_multiplier = Z(3)]

\* TradingConfig(...) as built by aggressive_example
AggressiveConfig ==
    [DefaultConfig EXCEPT !.max_risk_per_trade          = R(3, 100),
                          !.min_risk_reward_ratio       = R(15, 10),
                          !.max_position_size           = R(15, 100),
                          !.gap_threshold_percent       = R(15, 10),
                          !.volume_threshold_multiplier = R(15, 10)]

----------------------------------------------------------------------------
(* strategies.py: StrategySignal and the three strategies.                 *)

NoSignal == [kind |-> "none"]

Raise(e) == [kind |-> "raise", exc |-> e]

\* a float division that yields 0 for a zero divisor instead of raising
PyDivZeroGuarded(x, y) ==
    [kind |-> "ok", val |-> IF IsZero(y) THEN Z(0) ELSE RDiv(x, y)]

\* Python float division x / y: a zero divisor raises
PyDiv(x, y) ==
    IF IsZero(y) THEN Raise("ZeroDivisionError") ELSE [kind |-> "ok", val |-> RDiv(x, y)]

\* StrategySignal(...), timestamp filled by __post_init__ from datetime.now()
StrategySignal(symbol, name, type, conf, entry, stop, tp, rr, reasoning, now) ==
    [kind |-> "signal", symbol |-> symbol, strategy_name |-> name, signal_type |-> type,
     confidence |-> conf, entry_price |-> entry, stop_loss |-> stop, take_profit |-> tp,
     risk_reward_ratio |-> rr, reasoning |-> reasoning, timestamp |-> now]

\* the body of GapMomentumStrategy.analyze inside its try block
GapMomentumBody(sd, cfg, now) ==
    LET gap == sd.gap_percent
        cur == sd.current_price
        volFails == RLt(Z(0), sd.avg_volume) /\ IsNone(sd.premarket_volume)
        vr  == IF RLt(Z(0), sd.avg_volume)
               THEN RDiv(RAdd(sd.regular_volume, sd.premarket_volume), sd.avg_volume)
               ELSE Z(1)
        up  == RLe(cfg.gap_threshold_percent, gap)
        dn  == RLe(gap, RNeg(cfg.gap_threshold_percent))
        stop == IF up THEN RMul(cur, R(97, 100)) ELSE RMul(cur, R(95, 100))
        tp   == IF up THEN RMul(cur, R(106, 100)) ELSE RMul(cur, R(108, 100))
        conf == IF up
                THEN RMin(R(9, 10), RMul(RDiv(gap, Z(10)), RDiv(vr, Z(3))))
                ELSE RMin(R(8, 10), RMul(RDiv(RAbs(gap), Z(15)), RDiv(vr, Z(3))))
        rr   == PyDiv(RSub(tp, cur), RSub(cur, stop))
    IN  IF volFails THEN Raise("TypeError")
        ELSE IF (up \/ dn) /\ RLe(cfg.volume_threshold_multiplier, vr)
        THEN IF rr.kind = "raise" THEN rr
             ELSE StrategySignal(sd.symbol, "Gap Momentum", "BUY", conf, cur, stop, tp, rr.val,
                                 IF up THEN "Gap up" ELSE "Gap down bounce play", now)
        ELSE NoSignal

\* a Gap Momentum that shorts the gap down instead of buying the bounce
GapMomentumShortsGapDown(sd, cfg, now) ==
    LET r == GapMomentumBody(sd, cfg, now)
    IN  IF r.kind = "raise" THEN NoSignal
        ELSE IF r.kind = "signal" /\ RLt(sd.gap_percent, Z(0))
        THEN [r EXCEPT !.signal_type = "SELL"]
        ELSE r

\* try: ... except Exception: return None
GapMomentumAnalyze(sd, cfg, now) ==
    LET r == GapMomentumBody(sd, cfg, now) IN IF r.kind = "raise" THEN NoSignal ELSE r

\* the body of VolumeBreakoutStrategy.analyze inside its try block
VolumeBreakoutBody(sd, cfg, now) ==
    LET cur == sd.current_price
        gap == sd.gap_percent
        vr  == RDiv(RAdd(sd.regular_volume, sd.premarket_volume), sd.avg_volume)
        buy  == RLt(Z(1), gap)
        sell == RLt(gap, Z(-1))
        stop == IF buy THEN RMul(cur, R(96, 100)) ELSE RMul(cur, R(104, 100))
        tp   == IF buy THEN RMul(cur, R(108, 100)) ELSE RMul(cur, R(92, 100))
        conf == RMin(R(85, 100), RDiv(vr, Z(5)))
        rr   == PyDiv(RAbs(RSub(tp, cur)), RAbs(RSub(cur, stop)))
    IN  IF IsNone(sd.premarket_volume) THEN Raise("TypeError")
        ELSE IF IsZero(sd.avg_volume) THEN NoSignal
        ELSE IF RLe(RMul(cfg.volume_threshold_multiplier, R(15, 10)), vr) /\ (buy \/ sell)
        THEN IF rr.kind = "raise" THEN rr
             ELSE StrategySignal(sd.symbol, "Volume Breakout", IF buy THEN "BUY" ELSE "SELL",
                                 conf, cur, stop, tp, rr.val,
                                 IF buy THEN "Volume breakout gap up"
                                        ELSE "Volume breakout gap down", now)
        ELSE NoSignal

\* a Volume Breakout whose gap test is not strict: a gap of exactly 1.0 or
\* -1.0 is traded too
VolumeBreakoutAtOnePercent(sd, cfg, now) ==
    LET edge == sd.gap_percent = Z(1) \/ sd.gap_percent = Z(-1)
        r    == VolumeBreakoutBody(IF edge THEN [sd EXCEPT !.gap_percent = RMul(sd.gap_percent, Z(2))]
                                           ELSE sd, cfg, now)
    IN  IF r.kind = "raise" THEN NoSignal ELSE r

VolumeBreakoutAnalyze(sd, cfg, now) ==
    LET r == VolumeBreakoutBody(sd, cfg, now) IN IF r.kind = "raise" THEN NoSignal ELSE r

\* the body of PremarketMomentumStrategy.analyze inside its try block
PremarketMomentumBody(sd, cfg, now) ==
    LET cur  == sd.current_price
        prev == sd.previous_close
        \* premarket_price or current_price: None and 0.0 are both falsy
        pm   == IF IsNone(sd.premarket_price) \/ IsZero(sd.premarket_price)
                THEN cur ELSE sd.premarket_price
        move == RMul(RDiv(RSub(pm, prev), prev), Z(100))
        hasAvg   == RLt(Z(0), sd.avg_volume)
        volFails == hasAvg /\ IsNone(sd.premarket_volume)
        pvr  == IF hasAvg /\ RLt(Z(0), sd.premarket_volume)
                THEN RDiv(sd.premarket_volume, RMul(sd.avg_volume, R(1, 10)))
                ELSE Z(1)
        pos  == RLt(Z(2), move)
        neg  == RLt(move, Z(-2))
        stop == IF pos THEN RMul(cur, R(97, 100)) ELSE RMul(cur, R(94, 100))
        tp   == IF pos THEN RMul(cur, R(106, 100)) ELSE RMul(cur, R(109, 100))
        conf == RMin(R(8, 10), RMul(RDiv(RAbs(move), Z(8)), pvr))
        rr   == PyDiv(RSub(tp, cur), RSub(cur, stop))
    IN  IF ~RLt(Z(0), prev) THEN NoSignal
        ELSE IF ~RLe(Z(2), RAbs(move)) THEN NoSignal
        ELSE IF volFails THEN Raise("TypeError")
        ELSE IF ~(pos \/ neg) THEN NoSignal
        ELSE IF rr.kind = "raise" THEN rr
        ELSE StrategySignal(sd.symbol, "Premarket Momentum", "BUY", conf, cur, stop, tp, rr.val,
                            IF pos THEN "Premarket momentum" ELSE "Premarket oversold reversal play",
                            now)

\* a Premarket Momentum that shorts a negative move instead of buying it
PremarketMomentumShortsDrop(sd, cfg, now) ==
    LET r == PremarketMomentumBody(sd, cfg, now)
    IN  IF r.kind = "raise" THEN NoSignal
        ELSE IF r.kind = "signal" /\ r.reasoning = "Premarket oversold reversal play"
        THEN [r EXCEPT !.signal_type = "SELL"]
        ELSE r

PremarketMomentumAnalyze(sd, cfg, now) ==
    LET r == PremarketMomentumBody(sd, cfg, now) IN IF r.kind = "raise" THEN NoSignal ELSE r

----------------------------------------------------------------------------
(* strategies.py: StrategyManager.                                         *)

\* self.strategies, in registration order
Strategies == <<"Gap Momentum", "Volume Breakout", "Premarket Momentum">>

\* strategy.analyze(stock_data), dispatched on the strategy object
Analyze(name, sd, cfg, now) ==
    CASE name = "Gap Momentum"       -> GapMomentumAnalyze(sd, cfg, now)
      [] name = "Volume Breakout"    -> VolumeBreakoutAnalyze(sd, cfg, now)
      [] name = "Premarket Momentum" -> PremarketMomentumAnalyze(sd, cfg, now)

\* the registry's test without the risk/reward comparison
PassesConfidenceOnly(s, cfg) ==
    /\ s.kind = "signal"
    /\ RLt(R(3, 10), s.confidence)

\* the test of lines 280-283 on one strategy's outcome; an outcome that is an
\* exception is swallowed by the except clause of the loop body
PassesRegistry(s, cfg) ==
    /\ s.kind = "signal"
    /\ RLt(R(3, 10), s.confidence)
    /\ RLe(cfg.min_risk_reward_ratio, s.risk_reward_ratio)

\* what one strategy's code does before any handler: a signal, None or an exception
Body(name, sd, cfg, now) ==
    CASE name = "Gap Momentum"       -> GapMomentumBody(sd, cfg, now)
      [] name = "Volume Breakout"    -> VolumeBreakoutBody(sd, cfg, now)
      [] name = "Premarket Momentum" -> PremarketMomentumBody(sd, cfg, now)

\* an analyze_stock with one handler around the whole loop and none inside the
\* strategies: the first exception ends the loop, what was collected is returned
analyze_stock_until_failure(sd, cfg, now) ==
    LET outs   == [i \in 1..Len(Strategies) |-> Body(Strategies[i], sd, cfg, now)]
        failed == {i \in 1..Len(Strategies) : outs[i].kind = "raise"}
        last   == IF failed = {} THEN Len(Strategies)
                  ELSE (CHOOSE i \in failed : \A j \in failed : i <= j) - 1
    IN  SelectSeq(SubSeq(outs, 1, last), LAMBDA s : PassesRegistry(s, cfg))

analyze_stock(sd, cfg, now) ==
    LET outs == [i \in 1..Len(Strategies) |-> Analyze(Strategies[i], sd, cfg, now)]
    IN  SelectSeq(outs, LAMBDA s : PassesRegistry(s, cfg))

\* an ascending sort read backwards: descending by key, but elements with equal
\* keys come out in reverse of their original order
SortAscendingReversed(s) ==
    LET n      == Len(s)
        pos(i) == 1 + Cardinality({j \in 1..n : \/ RLt(s[i].key, s[j].key)
                                                \/ (s[j].key = s[i].key /\ j > i)})
    IN  [p \in 1..n |-> s[CHOOSE i \in 1..n : pos(i) = p]]

\* list.sort(key=..., reverse=True) on a list of [key, val] pairs: descending by
\* key, elements with equal keys keep their original relative order
SortDescending(s) ==
    LET n      == Len(s)
        pos(i) == 1 + Cardinality({j \in 1..n : \/ RLt(s[i].key, s[j].key)
                                                \/ (s[j].key = s[i].key /\ j < i)})
    IN  [p \in 1..n |-> s[CHOOSE i \in 1..n : pos(i) = p]]

\* signal.strategy_name.lower().replace(' ', '_')
NormalizeName(name) ==
    CASE name = "Gap Momentum"       -> "gap_momentum"
      [] name = "Volume Breakout"    -> "volume_breakout"
      [] name = "Premarket Momentum" -> "premarket_momentum"
      [] name = "GAP MOMENTUM"       -> "gap_momentum"
      [] name = "Mean Reversion"     -> "mean_reversion"
      [] OTHER                       -> "unknown"

\* trading_config.strategy_weights.get(key, 0.5)
StrategyWeight(name, cfg) ==
    LET key == NormalizeName(name)
    IN  IF key \in DOMAIN cfg.strategy_weights THEN cfg.strategy_weights[key] ELSE R(5, 10)

\* a selection by confidence alone, the strategy weights ignored
get_most_confident_signal(signals, cfg) ==
    IF signals = <<>> THEN NoSignal
    ELSE SortDescending([i \in 1..Len(signals) |->
                            [key |-> signals[i].confidence, val |-> signals[i]]])[1].val

get_best_signal(signals, cfg) ==
    IF signals = <<>> THEN NoSignal
    ELSE LET weighted == [i \in 1..Len(signals) |->
                            [key |-> RMul(signals[i].confidence,
                                          StrategyWeight(signals[i].strategy_name, cfg)),
                             val |-> signals[i]]]
         IN  SortDescending(weighted)[1].val

----------------------------------------------------------------------------
(* signals_bot.py: position sizing and result construction.                *)

AccountValue == 100000

IsRaise(r) == "kind" \in DOMAIN r /\ r.kind = "raise"

\* strategies.py, BaseStrategy.calculate_position_sizing: the same sizing on
\* (entry_price, stop_loss), without the profit and loss fields
calculate_position_sizing(entry_price, stop_loss, cfg) ==
    LET risk_amount == RMul(Z(AccountValue), cfg.max_risk_per_trade)
        price_risk  == RAbs(RSub(entry_price, stop_loss))
        shares0     == PyInt(RDiv(risk_amount, price_risk))
        value0      == RMul(Z(shares0), entry_price)
        max_value   == RMul(Z(AccountValue), cfg.max_position_size)
        clamp       == RLt(max_value, value0)
        shares      == IF clamp THEN PyInt(RDiv(max_value, entry_price)) ELSE shares0
        value       == RMul(Z(shares), entry_price)
    IN  IF IsZero(price_risk)
        THEN [shares |-> 0, position_value |-> Z(0), risk_amount |-> Z(0)]
        ELSE IF clamp /\ IsZero(entry_price) THEN Raise("ZeroDivisionError")
        ELSE [shares           |-> shares,
              position_value   |-> value,
              risk_amount      |-> RMul(Z(shares), price_risk),
              position_percent |-> RMul(RDiv(value, Z(AccountValue)), Z(100))]

\* a sizer in which the position-size cap always decides the share count
position_info_by_size_cap(signal, cfg) ==
    LET price_risk == RAbs(RSub(signal.entry_price, signal.stop_loss))
        max_value  == RMul(Z(AccountValue), cfg.max_position_size)
        shares     == PyInt(RDiv(max_value, signal.entry_price))
        value      == RMul(Z(shares), signal.entry_price)
    IN  IF IsZero(price_risk)
        THEN [shares |-> 0, position_value |-> Z(0), risk_amount |-> Z(0),
              position_percent |-> Z(0)]
        ELSE IF IsZero(signal.entry_price) THEN Raise("ZeroDivisionError")
        ELSE [shares           |-> shares,
              position_value   |-> value,
              risk_amount      |-> RMul(Z(shares), price_risk),
              position_percent |-> RMul(RDiv(value, Z(AccountValue)), Z(100)),
              potential_profit |-> RMul(Z(shares), RSub(signal.take_profit, signal.entry_price)),
              potential_loss   |-> RMul(Z(shares), RSub(signal.entry_price, signal.stop_loss))]

\* the sizer with the "Don't exceed max position size" step left out
position_info_uncapped(signal, cfg) ==
    LET risk_amount == RMul(Z(AccountValue), cfg.max_risk_per_trade)
        price_risk  == RAbs(RSub(signal.entry_price, signal.stop_loss))
        shares      == PyInt(RDiv(risk_amount, price_risk))
        value       == RMul(Z(shares), signal.entry_price)
    IN  IF IsZero(price_risk)
        THEN [shares |-> 0, position_value |-> Z(0), risk_amount |-> Z(0),
              position_percent |-> Z(0)]
        ELSE [shares           |-> shares,
              position_value   |-> value,
              risk_amount      |-> RMul(Z(shares), price_risk),
              position_percent |-> RMul(RDiv(value, Z(AccountValue)), Z(100)),
              potential_profit |-> RMul(Z(shares), RSub(signal.take_profit, signal.entry_price)),
              potential_loss   |-> RMul(Z(shares), RSub(signal.entry_price, signal.stop_loss))]

_calculate_position_info(signal, cfg) ==
    LET risk_amount == RMul(Z(AccountValue), cfg.max_risk_per_trade)
        price_risk  == RAbs(RSub(signal.entry_price, signal.stop_loss))
        shares0     == PyInt(RDiv(risk_amount, price_risk))
        value0      == RMul(Z(shares0), signal.entry_price)
        max_value   == RMul(Z(AccountValue), cfg.max_position_size)
        clamp       == RLt(max_value, value0)
        shares      == IF clamp THEN PyInt(RDiv(max_value, signal.entry_price)) ELSE shares0
        value       == RMul(Z(shares), signal.entry_price)
    IN  IF IsZero(price_risk)
        THEN [shares |-> 0, position_value |-> Z(0), risk_amount |-> Z(0),
              position_percent |-> Z(0)]
        ELSE IF clamp /\ IsZero(signal.entry_price) THEN Raise("ZeroDivisionError")
        ELSE [shares           |-> shares,
              position_value   |-> value,
              risk_amount      |-> RMul(Z(shares), price_risk),
              position_percent |-> RMul(RDiv(value, Z(AccountValue)), Z(100)),
              potential_profit |-> RMul(Z(shares), RSub(signal.take_profit, signal.entry_price)),
              potential_loss   |-> RMul(Z(shares), RSub(signal.entry_price, signal.stop_loss))]

RECURSIVE RSum(_)
RSum(s) == IF s = <<>> THEN Z(0) ELSE RAdd(Head(s), RSum(Tail(s)))

PositionKeys ==
    {"shares", "position_value", "position_percent", "risk_amount", "potential_profit",
     "potential_loss"}

\* the exception building one signal_dict raises, or "" when it raises none
SignalDictError(t) ==
    IF ~(PositionKeys \subseteq DOMAIN t.position_info) THEN "KeyError"
    ELSE IF IsNone(t.data.premarket_volume) THEN "TypeError"
    ELSE ""

\* a signal_dict that also carries the time the signal was created
SignalDictStamped(t) ==
    LET signal == t.signal
        sd     == t.data
        pinfo  == t.position_info
        vol    == RAdd(sd.regular_volume, sd.premarket_volume)
    IN  [symbol            |-> signal.symbol,
         strategy          |-> signal.strategy_name,
         signal_type       |-> signal.signal_type,
         confidence        |-> PyRound(signal.confidence, 3),
         current_price     |-> PyRound(sd.current_price, 2),
         entry_price       |-> PyRound(signal.entry_price, 2),
         stop_loss         |-> PyRound(signal.stop_loss, 2),
         take_profit       |-> PyRound(signal.take_profit, 2),
         risk_reward_ratio |-> PyRound(signal.risk_reward_ratio, 2),
         gap_percent       |-> PyRound(sd.gap_percent, 2),
         reasoning         |-> signal.reasoning,
         timestamp         |-> signal.timestamp,
         position_sizing   |->
            [shares           |-> pinfo.shares,
             position_value   |-> PyRound(pinfo.position_value, 2),
             position_percent |-> PyRound(pinfo.position_percent, 1),
             risk_amount      |-> PyRound(pinfo.risk_amount, 2),
             potential_profit |-> PyRound(pinfo.potential_profit, 2),
             potential_loss   |-> PyRound(pinfo.potential_loss, 2)],
         volume_info       |->
            [current_volume |-> vol,
             avg_volume     |-> PyInt(sd.avg_volume),
             volume_ratio   |-> PyRound(RDiv(vol, RMax(sd.avg_volume, Z(1))), 2)]]

\* the signal_dict of lines 117-142 for one (signal, stock_data, position_info)
SignalDict(t) ==
    LET signal == t.signal
        sd     == t.data
        pinfo  == t.position_info
        vol    == RAdd(sd.regular_volume, sd.premarket_volume)
    IN  [symbol            |-> signal.symbol,
         strategy          |-> signal.strategy_name,
         signal_type       |-> signal.signal_type,
         confidence        |-> PyRound(signal.confidence, 3),
         current_price     |-> PyRound(sd.current_price, 2),
         entry_price       |-> PyRound(signal.entry_price, 2),
         stop_loss         |-> PyRound(signal.stop_loss, 2),
         take_profit       |-> PyRound(signal.take_profit, 2),
         risk_reward_ratio |-> PyRound(signal.risk_reward_ratio, 2),
         gap_percent       |-> PyRound(sd.gap_percent, 2),
         reasoning         |-> signal.reasoning,
         position_sizing   |->
            [shares           |-> pinfo.shares,
             position_value   |-> PyRound(pinfo.position_value, 2),
             position_percent |-> PyRound(pinfo.position_percent, 1),
             risk_amount      |-> PyRound(pinfo.risk_amount, 2),
             potential_profit |-> PyRound(pinfo.potential_profit, 2),
             potential_loss   |-> PyRound(pinfo.potential_loss, 2)],
         volume_info       |->
            [current_volume |-> vol,
             avg_volume     |-> PyInt(sd.avg_volume),
             volume_ratio   |-> PyRound(RDiv(vol, RMax(sd.avg_volume, Z(1))), 2)]]

ConfigBlock(cfg) ==
    [max_risk_per_trade          |-> cfg.max_risk_per_trade,
     min_risk_reward_ratio       |-> cfg.min_risk_reward_ratio,
     gap_threshold_percent       |-> cfg.gap_threshold_percent,
     volume_threshold_multiplier |-> cfg.volume_threshold_multiplier]

\* lines 145-155: the summary statistics over signals_list
Summary(list, all_stock_data) ==
    [total_stocks_analyzed |-> Len(all_stock_data),
     signals_generated     |-> Len(list),
     avg_confidence        |->
        IF list # <<>>
        THEN PyRound(RDiv(RSum([i \in 1..Len(list) |-> list[i].confidence]), Z(Len(list))), 3)
        ELSE Z(0),
     avg_risk_reward       |->
        IF list # <<>>
        THEN PyRound(RDiv(RSum([i \in 1..Len(list) |-> list[i].risk_reward_ratio]),
                          Z(Len(list))), 2)
        ELSE Z(0),
     buy_signals           |-> Len(SelectSeq(list, LAMBDA r : r.signal_type = "BUY")),
     sell_signals          |-> Len(SelectSeq(list, LAMBDA r : r.signal_type = "SELL")),
     total_risk_amount     |->
        PyRound(RSum([i \in 1..Len(list) |-> list[i].position_sizing.risk_amount]), 2),
     total_position_value  |->
        PyRound(RSum([i \in 1..Len(list) |-> list[i].position_sizing.position_value]), 2)]

\* lines 157-168
ResultOf(list, all_stock_data, start_time, cfg, now) ==
    [timestamp                 |-> now,
     analysis_duration_seconds |-> now - start_time,
     summary                   |-> Summary(list, all_stock_data),
     signals                   |-> list,
     config                    |-> ConfigBlock(cfg)]

\* lines 114-143: the loop that builds signals_list; the first triple whose
\* signal_dict cannot be built raises
SignalDicts(signals_data) ==
    LET failing == SelectSeq(signals_data, LAMBDA t : SignalDictError(t) # "")
    IN  IF failing # <<>> THEN Raise(SignalDictError(Head(failing)))
        ELSE [kind |-> "ok",
              val  |-> SubSeq([i \in 1..Len(signals_data) |-> SignalDict(signals_data[i])],
                              1, Len(signals_data))]

ResultOrRaise(dicts, all_stock_data, start_time, cfg, now) ==
    IF IsRaise(dicts) THEN dicts
    ELSE ResultOf(dicts.val, all_stock_data, start_time, cfg, now)

\* a _create_result that reports an empty signal list as the empty universe is
\* reported
_create_result_with_reason(signals_data, all_stock_data, start_time, cfg, now) ==
    IF signals_data = <<>>
    THEN [timestamp                 |-> now,
          analysis_duration_seconds |-> 0,
          summary                   |-> [total_stocks_analyzed |-> 0, signals_generated |-> 0,
                                         error |-> "No valid signals"],
          signals                   |-> <<>>,
          config                    |-> ConfigBlock(cfg)]
    ELSE ResultOrRaise(SignalDicts(signals_data), all_stock_data, start_time, cfg, now)

_create_result(signals_data, all_stock_data, start_time, cfg, now) ==
    ResultOrRaise(SignalDicts(signals_data), all_stock_data, start_time, cfg, now)

_create_empty_result(reason, cfg, now) ==
    [timestamp                 |-> now,
     analysis_duration_seconds |-> 0,
     summary                   |-> [total_stocks_analyzed |-> 0, signals_generated |-> 0,
                                    error |-> reason],
     signals                   |-> <<>>,
     config                    |-> ConfigBlock(cfg)]

----------------------------------------------------------------------------
(* data_fetcher.py: the filter applied to the fetched data.                *)

PassesCriteria(data, cfg) ==
    /\ ~(RLt(data.current_price, cfg.min_price) \/ RLt(cfg.max_price, data.current_price))
    /\ ~(IsZero(data.regular_volume) /\ ~IsNone(data.premarket_volume)
                                     /\ IsZero(data.premarket_volume))
    /\ ~RLt(RAbs(data.gap_percent), Z(1))

filter_stocks_by_criteria(stock_data, cfg) ==
    SelectSeq(stock_data, LAMBDA data : PassesCriteria(data, cfg))

----------------------------------------------------------------------------
(* Inputs: the quotes the data source can return and the configurations.   *)

\* StockData as _fetch_yfinance_data and get_premarket_data assemble it:
\* gap_percent is derived from the prices when previous_close > 0, else 0
Quote(cur, prev, pm_price, pm_volume, volume, avg) ==
    [current_price    |-> cur,
     previous_close   |-> prev,
     premarket_price  |-> pm_price,
     premarket_volume |-> pm_volume,
     regular_volume   |-> volume,
     avg_volume       |-> avg,
     gap_percent      |-> IF RLt(Z(0), prev) THEN RMul(RDiv(RSub(cur, prev), prev), Z(100))
                                            ELSE Z(0)]

\* gap +5%, 2.5x volume: Gap Momentum BUY, confidence 5/12
QGapUp == Quote(Z(105), Z(100), Z(100), Z(0), Z(2500), Z(1000))

\* gap -2%, 3x volume: Volume Breakout SELL, confidence 3/5
QVolSell == Quote(Z(98), Z(100), Z(100), Z(0), Z(3000), Z(1000))

\* gap +4%, 2.5x volume: Gap Momentum BUY, confidence 1/3
QWeak == Quote(Z(104), Z(100), Z(100), Z(0), Z(2500), Z(1000))

\* no premarket quote volume (JSON null) and no average volume
QNullVolume == Quote(Z(104), Z(100), PyNone, PyNone, Z(500), Z(0))

\* below min_price
QPenny == Quote(R(1, 2), Z(1), PyNone, Z(0), Z(500), Z(1000))

\* gap -11.2725%, 2x volume: Gap Momentum bounce, confidence 0.501, ratio 8/5
QBounce == Quote(R(887275, 10000), Z(100), Z(100), Z(0), Z(2000), Z(1000))

\* gap +6.009%, 2x volume: Gap Momentum BUY, confidence 0.4006, ratio 2
QGapUp2 == Quote(R(106009, 1000), Z(100), Z(100), Z(0), Z(2000), Z(1000))

ShortPool == {QGapUp, QVolSell, QWeak, QNullVolume, QPenny, QBounce, QGapUp2}

LongPool == {QGapUp, QVolSell}

MaxShort == 2

MaxLong == 11

\* line 71: valid_signals[:10]
TopN == 10

ShortUniverses == UNION {[1..n -> ShortPool] : n \in 0..MaxShort}

MaxSell == 1

\* watchlists longer than the cut, with at most MaxSell short candidates
LongUniverses ==
    {q \in [1..MaxLong -> LongPool] : Cardinality({i \in 1..MaxLong : q[i] = QVolSell}) <= MaxSell}

Universes == ShortUniverses \cup LongUniverses

Configs == {DefaultConfig, ConservativeConfig, AggressiveConfig}

\* the dict the fetch returns, in watchlist order; the symbol is the position
\* of the quote in the watchlist
WithSymbols(quotes) ==
    [i \in 1..Len(quotes) |->
        [symbol           |-> i,
         current_price    |-> quotes[i].current_price,
         previous_close   |-> quotes[i].previous_close,
         premarket_price  |-> quotes[i].premarket_price,
         premarket_volume |-> quotes[i].premarket_volume,
         regular_volume   |-> quotes[i].regular_volume,
         avg_volume       |-> quotes[i].avg_volume,
         gap_percent      |-> quotes[i].gap_percent]]

----------------------------------------------------------------------------
(* State.                                                                  *)

VARIABLES
    cfg,            \* the TradingConfig that the name trading_config, bound by "from config
                    \* import trading_config", denotes in strategies.py, signals_bot.py
                    \* and data_fetcher.py
    config_trading_config,  \* the attribute trading_config of the module config
    clock,          \* datetime.now()
    pc,             \* position of the caller in run_analysis
    run,            \* number of the current invocation of run_analysis
    quotes,         \* what the data source returns for the watchlist
    start_time,     \* run_analysis: start_time
    stock_data,     \* run_analysis: stock_data, in dict iteration order
    idx,            \* run_analysis: position of the for loop in stock_data
    all_signals,    \* run_analysis: all_signals
    top_signals,    \* run_analysis: top_signals
    result,         \* what run_analysis returned
    first_result,   \* what the previous invocation returned
    last_run_time,  \* SignalsBot.last_run_time
    arg,            \* argument of a direct call of one function
    ret,            \* what the direct call returned
    hpc             \* position of the direct caller

vars == <<cfg, config_trading_config, clock, pc, run, quotes, start_time, stock_data, idx, all_signals,
          top_signals, result, first_result, last_run_time, arg, ret, hpc>>

botVars == <<pc, run, quotes, start_time, stock_data, idx, all_signals, top_signals,
             result, first_result, last_run_time>>

callVars == <<arg, ret, hpc>>

cfgVars == <<cfg, config_trading_config>>

NoResult == [kind |-> "none"]

MaxRuns == 2

\* exceptions that derive from BaseException and not from Exception, raised in
\* the running coroutine when the caller abandons the run
Interrupts == {"KeyboardInterrupt", "SystemExit"}

\* str(e) of the exceptions the model raises
ErrorText(exc) ==
    CASE exc = "KeyError"          -> "Error: 'potential_profit'"
      [] exc = "TypeError"         -> "Error: unsupported operand type(s) for +: 'int' and 'NoneType'"
      [] exc = "ZeroDivisionError" -> "Error: float division by zero"
      [] exc \in Interrupts         -> "Error: "

\* line 81: "except Exception" is met by the subclasses of Exception only
IsException(exc) == exc \notin Interrupts

\* run_analysis without its exception handler: the exception reaches the caller
TryExceptAbsent(r, c, now) == r

\* run_analysis with a handler for every exception: "except BaseException"
TryExceptBare(r, c, now) ==
    IF IsRaise(r) THEN _create_empty_result(ErrorText(r.exc), c, now) ELSE r

\* lines 35 and 81-83: try: ... except Exception as e: return _create_empty_result
TryExcept(r, c, now) ==
    IF IsRaise(r) /\ IsException(r.exc)
    THEN _create_empty_result(ErrorText(r.exc), c, now)
    ELSE r

\* the final filter with the registry's confidence threshold
valid_signals_above_registry_gate(signals, c) ==
    SelectSeq(signals, LAMBDA t : /\ RLt(R(3, 10), t.signal.confidence)
                                  /\ RLe(c.min_risk_reward_ratio, t.signal.risk_reward_ratio))

\* lines 59-62
valid_signals(signals, c) ==
    SelectSeq(signals, LAMBDA t : /\ RLe(R(4, 10), t.signal.confidence)
                                  /\ RLe(c.min_risk_reward_ratio, t.signal.risk_reward_ratio))

\* lines 65-68: valid_signals.sort(key=confidence * risk_reward_ratio, reverse=True)
SortValid(valid) ==
    SortDescending([i \in 1..Len(valid) |->
                      [key |-> RMul(valid[i].signal.confidence, valid[i].signal.risk_reward_ratio),
                       val |-> valid[i]]])

\* the sorted list returned whole
CutNothing(sorted) ==
    SubSeq([i \in 1..Len(sorted) |-> sorted[i].val], 1, Len(sorted))

\* line 71: valid_signals[:10]
Cut(sorted) ==
    SubSeq([i \in 1..Len(sorted) |-> sorted[i].val], 1,
           IF Len(sorted) < TopN THEN Len(sorted) ELSE TopN)

RankAndCut(valid) == Cut(SortValid(valid))

\* lines 55-56
AppendSized(signals, best, data, pinfo) ==
    IF IsRaise(pinfo) THEN pinfo
    ELSE [kind |-> "ok",
          val  |-> Append(signals, [signal |-> best, data |-> data, position_info |-> pinfo])]

\* a loop body that keeps one selection per strategy: a selection whose
\* strategy already has an entry in all_signals is dropped
SizeBestOncePerStrategy(signals, best, data, c) ==
    IF best.kind = "none"
       \/ \E k \in 1..Len(signals) : signals[k].signal.strategy_name = best.strategy_name
    THEN [kind |-> "ok", val |-> signals]
    ELSE AppendSized(signals, best, data, _calculate_position_info(best, c))

\* lines 53-56
SizeBest(signals, best, data, c) ==
    IF best.kind = "none" THEN [kind |-> "ok", val |-> signals]
    ELSE AppendSized(signals, best, data, _calculate_position_info(best, c))

\* lines 50-56
SelectBest(signals, found, data, c) ==
    IF found = <<>> THEN [kind |-> "ok", val |-> signals]
    ELSE SizeBest(signals, get_best_signal(found, c), data, c)

\* lines 49-56: one iteration of the for loop; the new all_signals, or the
\* exception the iteration raises
AnalyzeOne(data, signals, c, now) ==
    SelectBest(signals, analyze_stock(data, c, now), data, c)

Idle ==
    /\ pc = "idle" /\ run = 1 /\ quotes = <<>> /\ start_time = 0 /\ stock_data = <<>>
    /\ idx = 0 /\ all_signals = <<>> /\ top_signals = <<>> /\ result = NoResult
    /\ first_result = NoResult /\ last_run_time = 0

NoCall == arg = NoResult /\ ret = NoResult /\ hpc = "none"

Init ==
    /\ cfg \in Configs
    /\ config_trading_config = cfg
    /\ clock = 1
    /\ Idle
    /\ NoCall

\* lines 30-33: run_analysis is called
Start ==
    /\ pc = "idle"
    /\ pc' = "fetch"
    /\ start_time' = clock
    /\ clock' = clock + 1
    /\ UNCHANGED <<cfgVars, run, quotes, stock_data, idx, all_signals, top_signals, result,
                   first_result, last_run_time, callVars>>

\* run_analysis without the "if not stock_data" return
FetchedUnchecked(sd) ==
    /\ stock_data' = sd
    /\ result' = NoResult
    /\ pc' = "loop"

\* lines 40-47 once the fetch returned sd
Fetched(sd) ==
    /\ stock_data' = sd
    /\ IF sd = <<>>
       THEN /\ result' = _create_empty_result("No stock data available", cfg, clock')
            /\ pc' = "done"
       ELSE /\ result' = NoResult
            /\ pc' = "loop"

\* lines 36-47: await fetch_premarket_stocks(); a repeated invocation is given
\* the quotes of the first one
Fetch ==
    /\ pc = "fetch"
    /\ \E q \in Universes :
          /\ run > 1 => q = quotes
          /\ quotes' = q
          /\ clock' = clock + 1
          /\ Fetched(filter_stocks_by_criteria(WithSymbols(q), cfg))
    /\ idx' = 1
    /\ all_signals' = <<>>
    /\ top_signals' = <<>>
    /\ UNCHANGED <<cfgVars, run, start_time, first_result, last_run_time, callVars>>

\* the effect of one loop iteration with outcome r
Iterated(r) ==
    IF IsRaise(r)
    THEN /\ result' = TryExcept(r, cfg, clock')
         /\ pc' = "done"
         /\ UNCHANGED <<all_signals, idx>>
    ELSE /\ all_signals' = r.val
         /\ idx' = idx + 1
         /\ UNCHANGED <<result, pc>>

\* lines 48-56: one iteration of the loop over stock_data.items()
AnalyzeNext ==
    /\ pc = "loop"
    /\ idx <= Len(stock_data)
    /\ clock' = clock + 1
    /\ Iterated(AnalyzeOne(stock_data[idx], all_signals, cfg, clock))
    /\ UNCHANGED <<cfgVars, run, quotes, start_time, stock_data, top_signals, first_result,
                   last_run_time, callVars>>

\* lines 74-83: the result r of _create_result is returned, or its exception handled
Returned(r) ==
    /\ result' = TryExcept(r, cfg, clock')
    /\ last_run_time' = IF IsRaise(r) THEN last_run_time ELSE clock'

\* lines 71-79 with top_signals computed
Ranked(top) ==
    /\ top_signals' = top
    /\ Returned(_create_result(top, stock_data, start_time, cfg, clock'))

\* lines 58-83: filter, sort, cut, build the result and return it
Finish ==
    /\ pc = "loop"
    /\ idx > Len(stock_data)
    /\ clock' = clock + 1
    /\ Ranked(RankAndCut(valid_signals(all_signals, cfg)))
    /\ pc' = "done"
    /\ UNCHANGED <<cfgVars, run, quotes, start_time, stock_data, idx, all_signals, first_result,
                   callVars>>

\* lines 48-56 and 81: the caller abandons the run between two iterations of
\* the loop; the exception e is raised in the loop, inside the try block, and
\* what the handler makes of it reaches the caller
Cancel ==
    /\ pc = "loop"
    /\ \E e \in Interrupts : result' = TryExcept(Raise(e), cfg, clock)
    /\ pc' = "cancelled"
    /\ UNCHANGED <<cfgVars, clock, run, quotes, start_time, stock_data, idx, all_signals,
                   top_signals, first_result, last_run_time, callVars>>

\* the caller invokes run_analysis on the same bot again
Again ==
    /\ pc = "done"
    /\ run < MaxRuns
    /\ run' = run + 1
    /\ first_result' = result
    /\ pc' = "idle"
    /\ UNCHANGED <<cfgVars, clock, quotes, start_time, stock_data, idx, all_signals, top_signals,
                   result, last_run_time, callVars>>

Next == Start \/ Fetch \/ AnalyzeNext \/ Finish \/ Cancel \/ Again

Spec == Init /\ [][Next]_vars

----------------------------------------------------------------------------
(* Direct calls of _calculate_position_info and _create_result on one      *)
(* signal: the position sizer as a function of (signal, configuration).    *)

\* max_risk_per_trade small enough that the risk budget, not the size cap, binds
LowRiskConfig == [DefaultConfig EXCEPT !.max_risk_per_trade = R(2, 1000)]

ZeroConfig == [DefaultConfig EXCEPT !.max_risk_per_trade = Z(0), !.max_position_size = Z(0)]

\* a malformed configuration: negative size cap
NegativeConfig == [DefaultConfig EXCEPT !.max_position_size = R(-1, 10)]

SizerConfigs == Configs \cup {LowRiskConfig, ZeroConfig, NegativeConfig}

SizerEntries == {Z(0), Z(10), Z(100)}

SizerStops == {R(94, 100), R(97, 100), Z(1), R(104, 100)}

SizerTargets == {R(92, 100), R(106, 100)}

\* a StrategySignal with stop and target given as multiples of the entry price
SizerSignal(entry, stopMul, tpMul) ==
    StrategySignal(1, "Volume Breakout", IF RLt(Z(1), stopMul) THEN "SELL" ELSE "BUY",
                   R(5, 10), entry, RMul(entry, stopMul), RMul(entry, tpMul), Z(2),
                   "direct call", 0)

SizerArgs ==
    {[signal |-> SizerSignal(e, sm, tm), data |-> WithSymbols(<<QVolSell>>)[1]] :
        e \in SizerEntries, sm \in SizerStops, tm \in SizerTargets}

InitSizer ==
    /\ cfg \in SizerConfigs
    /\ config_trading_config = cfg
    /\ clock = 1
    /\ Idle
    /\ arg \in SizerArgs
    /\ ret = NoResult
    /\ hpc = "call"

\* position_info = bot._calculate_position_info(signal, data) and
\* strategy.calculate_position_sizing(data, signal.entry_price, signal.stop_loss)
CallSizer ==
    /\ hpc = "call"
    /\ ret' = [position_info   |-> _calculate_position_info(arg.signal, cfg),
               position_sizing |-> calculate_position_sizing(arg.signal.entry_price,
                                                             arg.signal.stop_loss, cfg)]
    /\ hpc' = "sized"
    /\ UNCHANGED <<cfgVars, clock, arg, botVars>>

\* bot._create_result([(signal, data, position_info)], {symbol: data}, start_time)
CallCreateResult ==
    /\ hpc = "sized"
    /\ ~IsRaise(ret.position_info)
    /\ ret' = [position_info   |-> ret.position_info,
               position_sizing |-> ret.position_sizing,
               result          |-> _create_result(<<[signal |-> arg.signal, data |-> arg.data,
                                                     position_info |-> ret.position_info]>>,
                                                  <<arg.data>>, clock, cfg, clock)]
    /\ hpc' = "built"
    /\ UNCHANGED <<cfgVars, clock, arg, botVars>>

NextSizer == CallSizer \/ CallCreateResult

SpecSizer == InitSizer /\ [][NextSizer]_vars

----------------------------------------------------------------------------
(* Direct calls of the three strategies on one StockData.                  *)

EvalPrices == {Z(0), Z(100)}

EvalCloses == {Z(0), Z(100)}

EvalGaps == {Z(-5), Z(-3), Z(-2), Z(-1), Z(0), Z(1), Z(2), Z(3), Z(5)}

EvalPremarketPrices == {PyNone, Z(0), Z(97), Z(98), Z(102), Z(103)}

EvalAvgVolumes == {Z(0), Z(1000)}

EvalVolumes == {Z(0), Z(2000), Z(3000)}

EvalPremarketVolumes == {PyNone, Z(0), Z(500)}

\* StockData(...) with every field given by the caller
EvalSnapshots ==
    {[symbol |-> 1, current_price |-> cur, previous_close |-> prev, premarket_price |-> pmp,
      premarket_volume |-> pmv, regular_volume |-> vol, avg_volume |-> avg,
      gap_percent |-> gap] :
        cur \in EvalPrices, prev \in EvalCloses, pmp \in EvalPremarketPrices,
        pmv \in EvalPremarketVolumes, vol \in EvalVolumes, avg \in EvalAvgVolumes,
        gap \in EvalGaps}

InitEval ==
    /\ cfg \in Configs
    /\ config_trading_config = cfg
    /\ clock = 1
    /\ Idle
    /\ arg \in EvalSnapshots
    /\ ret = NoResult
    /\ hpc = "call"

Returns(name, out) ==
    /\ hpc = "call"
    /\ ret' = [strategy |-> name, out |-> out]
    /\ hpc' = "returned"
    /\ UNCHANGED <<cfgVars, clock, arg, botVars>>

CallGapMomentum == Returns("Gap Momentum", GapMomentumAnalyze(arg, cfg, clock))

CallVolumeBreakout == Returns("Volume Breakout", VolumeBreakoutAnalyze(arg, cfg, clock))

CallPremarketMomentum == Returns("Premarket Momentum", PremarketMomentumAnalyze(arg, cfg, clock))

\* signals = strategy_manager.analyze_stock(stock_data)
CallAnalyzeStock ==
    /\ hpc = "call"
    /\ ret' = [signals |-> analyze_stock(arg, cfg, clock)]
    /\ hpc' = "analyzed"
    /\ UNCHANGED <<cfgVars, clock, arg, botVars>>

NextEval == CallGapMomentum \/ CallVolumeBreakout \/ CallPremarketMomentum \/ CallAnalyzeStock

SpecEval == InitEval /\ [][NextEval]_vars

----------------------------------------------------------------------------
(* example_usage.py: conservative_example and aggressive_example run the   *)
(* bot after assigning their TradingConfig to config.trading_config.       *)

\* the configurations the two examples construct
ExampleConfigs == {ConservativeConfig, AggressiveConfig}

\* the modules have been imported: every binding is the object of config.py:62
InitExample ==
    /\ cfg = DefaultConfig
    /\ config_trading_config = DefaultConfig
    /\ clock = 1
    /\ Idle
    /\ arg = NoResult
    /\ ret = NoResult
    /\ hpc = "example"

\* original_config = trading_config; import config; config.trading_config = c:
\* the attribute of the module is rebound, the names the other modules
\* imported are not
InstallOverride ==
    /\ hpc = "example"
    /\ \E c \in ExampleConfigs : config_trading_config' = c
    /\ arg' = config_trading_config
    /\ hpc' = "installed"
    /\ UNCHANGED <<cfg, clock, ret, botVars>>

\* try: bot = SignalsBot(); result = await bot.run_analysis()
RunInExample ==
    /\ hpc = "installed"
    /\ (Start \/ Fetch \/ AnalyzeNext \/ Finish)

\* finally: config.trading_config = original_config
RestoreConfig ==
    /\ hpc = "installed"
    /\ pc = "done"
    /\ config_trading_config' = arg
    /\ ret' = result
    /\ hpc' = "restored"
    /\ UNCHANGED <<cfg, clock, arg, botVars>>

NextExample == InstallOverride \/ RunInExample \/ RestoreConfig

SpecExample == InitExample /\ [][NextExample]_vars

----------------------------------------------------------------------------
(* Direct calls of StrategyManager.get_best_signal on a list of signals.   *)

\* a TradingConfig constructed with strategy_weights naming one strategy only
GapOnlyWeights == [DefaultConfig EXCEPT !.strategy_weights = [gap_momentum |-> R(4, 10)]]

SelectConfigs == {DefaultConfig, GapOnlyWeights}

\* strategy names of the candidates: the registered ones, one in another case
\* and one no weight is configured for
CandidateNames == {"Gap Momentum", "Volume Breakout", "Premarket Momentum", "GAP MOMENTUM",
                   "Mean Reversion"}

CandidateConfidences == {R(3, 10), R(4, 10), R(6, 10)}

Candidates ==
    {StrategySignal(1, name, "BUY", conf, Z(100), Z(97), Z(106), Z(2), "direct call", 0) :
        name \in CandidateNames, conf \in CandidateConfidences}

MaxCandidates == 3

CandidateLists == UNION {[1..n -> Candidates] : n \in 0..MaxCandidates}

InitSelect ==
    /\ cfg \in SelectConfigs
    /\ config_trading_config = cfg
    /\ clock = 1
    /\ Idle
    /\ arg \in CandidateLists
    /\ ret = NoResult
    /\ hpc = "call"

\* best_signal = strategy_manager.get_best_signal(signals)
CallGetBestSignal ==
    /\ hpc = "call"
    /\ ret' = get_best_signal(arg, cfg)
    /\ hpc' = "selected"
    /\ UNCHANGED <<cfgVars, clock, arg, botVars>>

NextSelect == CallGetBestSignal

SpecSelect == InitSelect /\ [][NextSelect]_vars

----------------------------------------------------------------------------
(* Properties.                                                             *)

NonNegativeCaps(c) == ~RLt(c.max_risk_per_trade, Z(0)) /\ ~RLt(c.max_position_size, Z(0))

RiskBudget(c) == RMul(Z(AccountValue), c.max_risk_per_trade)

MaxAllowedValue(c) == RMul(Z(AccountValue), c.max_position_size)

\* C1: for a signal with entry_price > 0 and a configuration whose
\* max_risk_per_trade and max_position_size are not negative, the sizer returns
\* shares >= 0, position_value <= account_value * max_position_size and
\* risk_amount <= account_value * max_risk_per_trade; so does
\* calculate_position_sizing on the same entry and stop.
C1_SizerWithinCaps ==
    (hpc = "sized" /\ RLt(Z(0), arg.signal.entry_price) /\ NonNegativeCaps(cfg)) =>
        \A p \in {ret.position_info, ret.position_sizing} :
            /\ ~IsRaise(p)
            /\ p.shares >= 0
            /\ RLe(p.position_value, MaxAllowedValue(cfg))
            /\ RLe(p.risk_amount, RiskBudget(cfg))

\* entry 100, stop 97 under the default configuration: 666 shares by risk,
\* cut to 100 by the size cap
C1_Witness ==
    /\ hpc = "sized"
    /\ cfg = DefaultConfig
    /\ arg.signal.entry_price = Z(100)
    /\ arg.signal.stop_loss = Z(97)
    /\ ret.position_info.shares = 100
    /\ ret.position_info.position_value = MaxAllowedValue(cfg)

\* C2: no field of a sized position is negative: for every selected signal,
\* BUY or SELL, potential_profit = shares * |take_profit - entry_price| >= 0 and
\* potential_loss = shares * |entry_price - stop_loss| >= 0.
C2_NoNegativeField ==
    \A i \in 1..Len(all_signals) :
        LET signal == all_signals[i].signal
            pinfo  == all_signals[i].position_info
        IN  PositionKeys \subseteq DOMAIN pinfo =>
                /\ pinfo.potential_profit =
                       RMul(Z(pinfo.shares), RAbs(RSub(signal.take_profit, signal.entry_price)))
                /\ pinfo.potential_loss =
                       RMul(Z(pinfo.shares), RAbs(RSub(signal.entry_price, signal.stop_loss)))
                /\ ~RLt(pinfo.potential_profit, Z(0))
                /\ ~RLt(pinfo.potential_loss, Z(0))

\* C3: when entry_price equals stop_loss the sizer returns a zero-sized
\* position in which shares and every derived field are present and 0, and
\* building the result from that position raises no exception.
C3_ZeroRiskPosition ==
    (hpc = "built" /\ arg.signal.entry_price = arg.signal.stop_loss) =>
        /\ PositionKeys \subseteq DOMAIN ret.position_info
        /\ ret.position_info.shares = 0
        /\ \A k \in PositionKeys \ {"shares"} : ret.position_info[k] = Z(0)
        /\ ~IsRaise(ret.result)

\* C8: a strategy returns a signal or nothing; a returned signal has a
\* risk/reward ratio that is a number greater than 0; for current_price = 0
\* (stop equal to entry) the strategy returns nothing.
C8_RatioPositive ==
    hpc = "returned" =>
        /\ ret.out.kind \in {"signal", "none"}
        /\ ret.out.kind = "signal" => RLt(Z(0), ret.out.risk_reward_ratio)
        /\ IsZero(arg.current_price) => ret.out.kind = "none"

\* Gap Momentum called with current_price = 0 on a gap with volume: the ratio
\* is 0/0, the division raises and the strategy returns None
C8_Witness ==
    /\ hpc = "returned"
    /\ ret.strategy = "Gap Momentum"
    /\ IsZero(arg.current_price)
    /\ GapMomentumBody(arg, cfg, clock) = Raise("ZeroDivisionError")
    /\ ret.out = NoSignal

RankKey(t) == RMul(t.signal.confidence, t.signal.risk_reward_ratio)

ShownKey(r) == RMul(r.confidence, r.risk_reward_ratio)

\* run_analysis returned through line 74-79 (no exception, data was fetched)
ReturnedNormally == pc = "done" /\ ~IsRaise(result) /\ "error" \notin DOMAIN result.summary

\* C4 (as stated): the signal list returned by run_analysis has length at most
\* 10 and is sorted non-increasing by confidence * risk_reward_ratio of its
\* records.
C4_ReturnedListSorted ==
    pc = "done" =>
        /\ Len(result.signals) <= TopN
        /\ \A i, j \in 1..Len(result.signals) :
               i < j => ~RLt(ShownKey(result.signals[i]), ShownKey(result.signals[j]))

\* C4 (amended): the returned list has length at most 10, its records are the
\* selected signals in the order of top_signals, and that order is
\* non-increasing in the unrounded confidence * risk_reward_ratio.
C4_RankedByUnroundedKey ==
    pc = "done" =>
        /\ Len(result.signals) <= TopN
        /\ Len(result.signals) <= Len(top_signals)
        /\ \A i \in 1..Len(result.signals) :
               result.signals[i].symbol = top_signals[i].signal.symbol
        /\ \A i, j \in 1..Len(result.signals) :
               i < j => ~RLt(RankKey(top_signals[i]), RankKey(top_signals[j]))

\* eleven valid signals, cut to ten, with the sort having moved a later
\* instrument to the front
C4_Witness ==
    /\ ReturnedNormally
    /\ Len(valid_signals(all_signals, cfg)) > TopN
    /\ Len(result.signals) = TopN
    /\ result.signals[1].symbol > result.signals[2].symbol
    /\ RLt(RankKey(top_signals[TopN]), RankKey(top_signals[1]))

\* C5: two instruments that pass the final filters with equal
\* confidence * risk_reward_ratio appear in the output in the order in which
\* the universe was iterated.
C5_TiesKeepInputOrder ==
    ReturnedNormally =>
        \A i, j \in 1..Len(result.signals) :
            (i < j /\ RankKey(top_signals[i]) = RankKey(top_signals[j])) =>
                /\ result.signals[i].symbol < result.signals[j].symbol
                /\ \E a, b \in 1..Len(stock_data) :
                       /\ a < b
                       /\ stock_data[a].symbol = result.signals[i].symbol
                       /\ stock_data[b].symbol = result.signals[j].symbol

\* a tie between two instruments in a list the sort did reorder
C5_Witness ==
    /\ ReturnedNormally
    /\ \E i, j \in 1..Len(result.signals) :
           i < j /\ RankKey(top_signals[i]) = RankKey(top_signals[j])
    /\ \E k \in 1..(Len(result.signals) - 1) :
           result.signals[k].symbol > result.signals[k + 1].symbol

\* C6: run_analysis on an empty snapshot collection returns a Result with
\* signals_generated = 0, an empty signal list and a reason string.
C6_EmptyUniverseResult ==
    (pc = "done" /\ stock_data = <<>>) =>
        /\ ~IsRaise(result)
        /\ result.signals = <<>>
        /\ result.summary.signals_generated = 0
        /\ "error" \in DOMAIN result.summary
        /\ result.summary.error = "No stock data available"

C6_Witness ==
    /\ pc = "done"
    /\ quotes = <<>>
    /\ stock_data = <<>>
    /\ result.summary.error = "No stock data available"
    /\ last_run_time = 0

\* the loop ran over a non-empty universe and no pair passed the final filters
NothingPassed ==
    /\ pc = "done"
    /\ stock_data # <<>>
    /\ idx > Len(stock_data)
    /\ valid_signals(all_signals, cfg) = <<>>

ResultKeys == {"timestamp", "analysis_duration_seconds", "summary", "signals", "config"}

RecordKeys == {"symbol", "strategy", "signal_type", "confidence", "current_price",
               "entry_price", "stop_loss", "take_profit", "risk_reward_ratio",
               "gap_percent", "reasoning", "position_sizing", "volume_info"}

VolumeKeys == {"current_volume", "avg_volume", "volume_ratio"}

\* C9: run_analysis returns a Result and never raises, and every signal record
\* in the Result carries all of its fields, the full sizing block and the
\* volume block included.
C9_AlwaysAFullResult ==
    pc = "done" =>
        /\ ~IsRaise(result)
        /\ DOMAIN result = ResultKeys
        /\ {"total_stocks_analyzed", "signals_generated"} \subseteq DOMAIN result.summary
        /\ result.summary.signals_generated = Len(result.signals)
        /\ \A i \in 1..Len(result.signals) :
               /\ DOMAIN result.signals[i] = RecordKeys
               /\ DOMAIN result.signals[i].position_sizing = PositionKeys
               /\ DOMAIN result.signals[i].volume_info = VolumeKeys
               /\ \A k \in PositionKeys \ {"shares"} :
                      ~IsNone(result.signals[i].position_sizing[k])
               /\ ~IsNone(result.signals[i].volume_info.current_volume)

\* building a record failed on a snapshot without premarket volume after
\* signals had been collected: the handler returned an empty Result
C9_Witness ==
    /\ pc = "done"
    /\ idx > Len(stock_data)
    /\ top_signals # <<>>
    /\ IsRaise(_create_result(top_signals, stock_data, start_time, cfg, clock))
    /\ result.signals = <<>>
    /\ result.summary.error = ErrorText("TypeError")

Timeless(r) == [k \in DOMAIN r \ {"timestamp", "analysis_duration_seconds"} |-> r[k]]

\* C10: a second invocation on the same ordered snapshots and the same
\* configuration returns a Result equal to the first in every field except
\* timestamp and analysis_duration_seconds.
C10_RepeatableResult ==
    (run > 1 /\ pc = "done") => Timeless(result) = Timeless(first_result)

C10_Witness ==
    /\ run > 1
    /\ pc = "done"
    /\ Len(result.signals) > 1
    /\ result.timestamp # first_result.timestamp
    /\ result.signals = first_result.signals

\* C11: in Gap Momentum, with avg_volume = 0 and |gap_percent| >=
\* gap_threshold_percent (and a price above 0), the volume confirmation is
\* skipped and a signal is returned whatever volume_threshold_multiplier is.
C11_ZeroAverageSkipsVolume ==
    (/\ hpc = "returned"
     /\ ret.strategy = "Gap Momentum"
     /\ IsZero(arg.avg_volume)
     /\ RLt(Z(0), arg.current_price)
     /\ RLe(cfg.gap_threshold_percent, RAbs(arg.gap_percent))) =>
        ret.out.kind = "signal"

\* C12: while an example has its TradingConfig installed, the analysis run
\* inside it reads the installed values: the configuration the bot reads is the
\* installed one, and the returned result reports it and respects its
\* min_risk_reward_ratio.
C12_ExampleOverrideIsRead ==
    hpc = "installed" =>
        /\ cfg = config_trading_config
        /\ pc = "done" =>
              /\ result.config = ConfigBlock(config_trading_config)
              /\ \A i \in 1..Len(top_signals) :
                     RLe(config_trading_config.min_risk_reward_ratio,
                         top_signals[i].signal.risk_reward_ratio)

\* (regular_volume + premarket_volume) / avg_volume
VolumeRatio(sd) == RDiv(RAdd(sd.regular_volume, sd.premarket_volume), sd.avg_volume)

\* min(cap, x)
CapAt(cap, x) == IF RLt(cap, x) THEN cap ELSE x

Levels(out, sd, stopMul, tpMul) ==
    /\ out.entry_price = sd.current_price
    /\ out.stop_loss = RMul(sd.current_price, stopMul)
    /\ out.take_profit = RMul(sd.current_price, tpMul)

GapTriggers(sd, c) ==
    /\ RLe(c.gap_threshold_percent, RAbs(sd.gap_percent))
    /\ RLe(c.volume_threshold_multiplier, VolumeRatio(sd))

GapSignalAsSpecified(out, sd) ==
    /\ out.signal_type = "BUY"
    /\ IF RLt(Z(0), sd.gap_percent)
       THEN /\ Levels(out, sd, R(97, 100), R(106, 100))
            /\ out.confidence = CapAt(R(9, 10), RMul(RDiv(sd.gap_percent, Z(10)),
                                                     RDiv(VolumeRatio(sd), Z(3))))
       ELSE /\ Levels(out, sd, R(95, 100), R(108, 100))
            /\ out.confidence = CapAt(R(8, 10), RMul(RDiv(RAbs(sd.gap_percent), Z(15)),
                                                     RDiv(VolumeRatio(sd), Z(3))))

GapMomentumReturned ==
    /\ hpc = "returned"
    /\ ret.strategy = "Gap Momentum"
    /\ RLt(Z(0), arg.avg_volume)
    /\ ~IsNone(arg.premarket_volume)

\* C13 (as stated): Gap Momentum with avg_volume > 0 returns a signal if and
\* only if |gap_percent| >= gap_threshold_percent and volume_ratio >=
\* volume_threshold_multiplier; the signal is BUY with stop 0.97, target 1.06,
\* confidence min(0.9, (gap/10)*(ratio/3)) for a gap up and stop 0.95, target
\* 1.08, confidence min(0.8, (|gap|/15)*(ratio/3)) for a gap down.
C13_GapMomentumRule ==
    GapMomentumReturned =>
        /\ ret.out.kind = "signal" <=> GapTriggers(arg, cfg)
        /\ ret.out.kind = "signal" => GapSignalAsSpecified(ret.out, arg)

\* C13 (amended): the same for a snapshot whose current_price is not 0 and
\* whose premarket_volume is present; for the others no signal is returned.
C13_GapMomentumRuleNonZeroPrice ==
    /\ (GapMomentumReturned /\ ~IsZero(arg.current_price)) =>
           /\ ret.out.kind = "signal" <=> GapTriggers(arg, cfg)
           /\ ret.out.kind = "signal" => GapSignalAsSpecified(ret.out, arg)
    /\ (/\ hpc = "returned"
        /\ ret.strategy = "Gap Momentum"
        /\ RLt(Z(0), arg.avg_volume)
        /\ IsZero(arg.current_price) \/ IsNone(arg.premarket_volume)) => ret.out.kind = "none"

\* gap 5.0 and ratio 2.5 against thresholds 3.0 and 2.0: BUY with confidence 5/12
C13_Witness ==
    /\ GapMomentumReturned
    /\ cfg = DefaultConfig
    /\ arg.gap_percent = Z(5)
    /\ VolumeRatio(arg) = R(25, 10)
    /\ ret.out.kind = "signal"
    /\ ret.out.signal_type = "BUY"
    /\ ret.out.confidence = R(5, 12)

BreakoutTriggers(sd, c) ==
    /\ RLt(Z(0), sd.avg_volume)
    /\ RLe(RMul(R(15, 10), c.volume_threshold_multiplier), VolumeRatio(sd))
    /\ RLt(Z(1), RAbs(sd.gap_percent))

BreakoutSignalAsSpecified(out, sd) ==
    /\ out.confidence = CapAt(R(85, 100), RDiv(VolumeRatio(sd), Z(5)))
    /\ IF RLt(Z(1), sd.gap_percent)
       THEN out.signal_type = "BUY" /\ Levels(out, sd, R(96, 100), R(108, 100))
       ELSE out.signal_type = "SELL" /\ Levels(out, sd, R(104, 100), R(92, 100))

VolumeBreakoutReturned ==
    /\ hpc = "returned"
    /\ ret.strategy = "Volume Breakout"
    /\ ~IsNone(arg.premarket_volume)

\* C14 (as stated): Volume Breakout returns a signal if and only if
\* avg_volume > 0, volume_ratio >= 1.5 * volume_threshold_multiplier and
\* |gap_percent| > 1.0; BUY with stop 0.96 and target 1.08 for gap > 1.0, SELL
\* with stop 1.04 and target 0.92 for gap < -1.0; confidence
\* min(0.85, volume_ratio / 5).
C14_VolumeBreakoutRule ==
    VolumeBreakoutReturned =>
        /\ ret.out.kind = "signal" <=> BreakoutTriggers(arg, cfg)
        /\ ret.out.kind = "signal" => BreakoutSignalAsSpecified(ret.out, arg)

\* C14 (amended): the same for a snapshot whose current_price is not 0 and
\* whose premarket_volume is present; for the others no signal is returned.
C14_VolumeBreakoutRuleNonZeroPrice ==
    /\ (VolumeBreakoutReturned /\ ~IsZero(arg.current_price)) =>
           /\ ret.out.kind = "signal" <=> BreakoutTriggers(arg, cfg)
           /\ ret.out.kind = "signal" => BreakoutSignalAsSpecified(ret.out, arg)
    /\ (/\ hpc = "returned"
        /\ ret.strategy = "Volume Breakout"
        /\ IsZero(arg.current_price) \/ IsNone(arg.premarket_volume)) => ret.out.kind = "none"

\* a ratio of exactly 1.5 * 2.0 on a gap of -2: SELL with confidence 3/5, and
\* stop above, target below the entry
C14_Witness ==
    /\ VolumeBreakoutReturned
    /\ cfg = DefaultConfig
    /\ arg.gap_percent = Z(-2)
    /\ VolumeRatio(arg) = Z(3)
    /\ ret.out.kind = "signal"
    /\ ret.out.signal_type = "SELL"
    /\ ret.out.confidence = R(3, 5)
    /\ RLt(ret.out.entry_price, ret.out.stop_loss)
    /\ RLt(ret.out.take_profit, ret.out.entry_price)

\* premarket_price or current_price: the premarket price, or the current price
\* when the premarket price is None or 0
PricePremarket(sd) ==
    IF IsNone(sd.premarket_price) \/ IsZero(sd.premarket_price)
    THEN sd.current_price ELSE sd.premarket_price

\* the premarket price, or the current price when the premarket price is None
PricePremarketIfGiven(sd) ==
    IF IsNone(sd.premarket_price) THEN sd.current_price ELSE sd.premarket_price

\* the move from previous_close to the price pm, in percent
PremarketMove(pm, sd) == RMul(RDiv(RSub(pm, sd.previous_close), sd.previous_close), Z(100))

PremarketTriggers(pm, sd) ==
    /\ RLt(Z(0), sd.previous_close)
    /\ RLt(Z(2), PremarketMove(pm, sd)) \/ RLt(PremarketMove(pm, sd), Z(-2))

PremarketSignalAsSpecified(out, pm, sd) ==
    /\ out.signal_type = "BUY"
    /\ IF RLt(Z(0), PremarketMove(pm, sd))
       THEN Levels(out, sd, R(97, 100), R(106, 100))
       ELSE Levels(out, sd, R(94, 100), R(109, 100))

PremarketMomentumReturned ==
    /\ hpc = "returned"
    /\ ret.strategy = "Premarket Momentum"

\* C15 (as stated): Premarket Momentum returns a signal if and only if
\* previous_close > 0 and the premarket move (of the premarket price, or of the
\* current price when the premarket price is absent) is strictly above 2.0 or
\* strictly below -2.0; every signal is BUY, with stop 0.97 and target 1.06 for
\* a positive move and stop 0.94 and target 1.09 for a negative move.
C15_PremarketRule ==
    PremarketMomentumReturned =>
        /\ ret.out.kind = "signal" <=> PremarketTriggers(PricePremarketIfGiven(arg), arg)
        /\ ret.out.kind = "signal" =>
               PremarketSignalAsSpecified(ret.out, PricePremarketIfGiven(arg), arg)

\* avg_volume > 0 with premarket_volume absent: the comparison of line 219 fails
VolumeUnreadable(sd) == RLt(Z(0), sd.avg_volume) /\ IsNone(sd.premarket_volume)

\* C15 (amended): the same, with a premarket price of 0 counting as absent,
\* for a snapshot whose current_price is not 0 and whose premarket_volume is
\* present when avg_volume > 0 and the move is at least 2%; a snapshot with
\* current_price = 0 returns no signal.
C15_PremarketRuleNonZeroPrice ==
    /\ (PremarketMomentumReturned /\ ~IsZero(arg.current_price) /\ ~VolumeUnreadable(arg)) =>
           /\ ret.out.kind = "signal" <=> PremarketTriggers(PricePremarket(arg), arg)
           /\ ret.out.kind = "signal" =>
                  PremarketSignalAsSpecified(ret.out, PricePremarket(arg), arg)
    /\ (PremarketMomentumReturned /\ (IsZero(arg.current_price) \/ VolumeUnreadable(arg))) =>
           ret.out.kind = "none"

\* a premarket price 3% below the close: BUY with the wider stop; the states
\* with a move of exactly -2% or +2% return nothing
C15_Witness ==
    /\ PremarketMomentumReturned
    /\ arg.previous_close = Z(100)
    /\ arg.premarket_price = Z(97)
    /\ PremarketMove(PricePremarket(arg), arg) = Z(-3)
    /\ ret.out.kind = "signal"
    /\ ret.out.signal_type = "BUY"
    /\ ret.out.stop_loss = RMul(arg.current_price, R(94, 100))
    /\ ret.out.take_profit = RMul(arg.current_price, R(109, 100))

\* position of a strategy in self.strategies
RegistrationIndex(name) == CHOOSE i \in 1..Len(Strategies) : Strategies[i] = name

\* the strategy's output is a signal that survives the post-filter
Survives(name, sd, c, now) ==
    LET out == Analyze(name, sd, c, now)
    IN  /\ out.kind = "signal"
        /\ RLt(R(3, 10), out.confidence)
        /\ RLe(c.min_risk_reward_ratio, out.risk_reward_ratio)

\* C16: the list analyze_stock returns holds exactly the strategies' outputs
\* with confidence > 0.3 and risk_reward_ratio >= min_risk_reward_ratio, at
\* most one per strategy, in the order Gap Momentum, Volume Breakout,
\* Premarket Momentum.
C16_RegistryPostFilter ==
    hpc = "analyzed" =>
        /\ \A i \in 1..Len(ret.signals) :
               /\ ret.signals[i].strategy_name \in {Strategies[k] : k \in 1..Len(Strategies)}
               /\ ret.signals[i] = Analyze(ret.signals[i].strategy_name, arg, cfg, clock)
               /\ Survives(ret.signals[i].strategy_name, arg, cfg, clock)
        /\ \A i, j \in 1..Len(ret.signals) :
               i < j => RegistrationIndex(ret.signals[i].strategy_name)
                            < RegistrationIndex(ret.signals[j].strategy_name)
        /\ \A k \in 1..Len(Strategies) :
               Survives(Strategies[k], arg, cfg, clock) =>
                   \E i \in 1..Len(ret.signals) : ret.signals[i].strategy_name = Strategies[k]

\* all three strategies return a signal; the Gap Momentum one, a bounce with
\* ratio 1.6, is discarded and the other two are returned in order
C16_Witness ==
    /\ hpc = "analyzed"
    /\ cfg = DefaultConfig
    /\ \A k \in 1..Len(Strategies) : Analyze(Strategies[k], arg, cfg, clock).kind = "signal"
    /\ ~Survives("Gap Momentum", arg, cfg, clock)
    /\ Len(ret.signals) = 2
    /\ ret.signals[1].strategy_name = "Volume Breakout"
    /\ ret.signals[2].strategy_name = "Premarket Momentum"

\* C17: a failure inside one strategy never propagates: that strategy
\* contributes no signal, the others still run on the same snapshot and their
\* surviving candidates are returned.
C17_FailureIsolated ==
    hpc = "analyzed" =>
        \A k \in 1..Len(Strategies) :
            Body(Strategies[k], arg, cfg, clock).kind = "raise" =>
                /\ \A i \in 1..Len(ret.signals) : ret.signals[i].strategy_name # Strategies[k]
                /\ \A m \in 1..Len(Strategies) :
                       (/\ Body(Strategies[m], arg, cfg, clock).kind = "signal"
                        /\ PassesRegistry(Body(Strategies[m], arg, cfg, clock), cfg)) =>
                           \E i \in 1..Len(ret.signals) :
                               ret.signals[i] = Body(Strategies[m], arg, cfg, clock)

\* Volume Breakout fails on a missing premarket_volume and Premarket Momentum,
\* which runs after it, still delivers its signal
C17_Witness ==
    /\ hpc = "analyzed"
    /\ VolumeBreakoutBody(arg, cfg, clock) = Raise("TypeError")
    /\ PremarketMomentumBody(arg, cfg, clock).kind = "signal"
    /\ ret.signals = <<PremarketMomentumBody(arg, cfg, clock)>>

\* the weight of a strategy name: looked up under the lowercased name with
\* underscores for spaces, 0.5 when the configuration has no such key
ExpectedWeight(name, c) ==
    LET key == CASE name \in {"Gap Momentum", "GAP MOMENTUM"} -> "gap_momentum"
                 [] name = "Volume Breakout"                  -> "volume_breakout"
                 [] name = "Premarket Momentum"               -> "premarket_momentum"
                 [] OTHER                                     -> "mean_reversion"
    IN  IF key \in DOMAIN c.strategy_weights THEN c.strategy_weights[key] ELSE R(5, 10)

WeightedScore(s, c) == RMul(s.confidence, ExpectedWeight(s.strategy_name, c))

\* position i of the list holds a candidate of maximal weighted score
Maximal(i, list, c) ==
    \A j \in 1..Len(list) : RLe(WeightedScore(list[j], c), WeightedScore(list[i], c))

Registered(list) ==
    \A i \in 1..Len(list) : list[i].strategy_name \in {Strategies[k] : k \in 1..Len(Strategies)}

ResultSymbols == {result.signals[i].symbol : i \in 1..Len(result.signals)}

\* the selector's weighted score of a selected signal
SelectorScore(t) == RMul(t.signal.confidence, StrategyWeight(t.signal.strategy_name, cfg))

\* C19: every signal record of the final result has confidence >= 0.4 and
\* risk_reward_ratio >= min_risk_reward_ratio; a selected signal with
\* confidence in (0.3, 0.4) passed the registry but is not in the result; the
\* result is ordered by confidence * risk_reward_ratio.
C19_SecondGate ==
    ReturnedNormally =>
        /\ \A i \in 1..Len(result.signals) :
               /\ RLe(R(4, 10), result.signals[i].confidence)
               /\ RLe(cfg.min_risk_reward_ratio, result.signals[i].risk_reward_ratio)
               /\ RLe(R(4, 10), top_signals[i].signal.confidence)
               /\ RLe(cfg.min_risk_reward_ratio, top_signals[i].signal.risk_reward_ratio)
        /\ \A k \in 1..Len(all_signals) :
               /\ RLt(R(3, 10), all_signals[k].signal.confidence)
               /\ RLe(cfg.min_risk_reward_ratio, all_signals[k].signal.risk_reward_ratio)
               /\ RLt(all_signals[k].signal.confidence, R(4, 10)) =>
                      all_signals[k].signal.symbol \notin ResultSymbols
        /\ \A i \in 1..(Len(result.signals) - 1) :
               RLe(RankKey(top_signals[i + 1]), RankKey(top_signals[i]))

\* two records ordered by confidence * ratio against the order of their
\* selector scores
C19_RankedAgainstSelectorScore ==
    /\ ReturnedNormally
    /\ Len(result.signals) = 2
    /\ RLt(RankKey(top_signals[2]), RankKey(top_signals[1]))
    /\ RLt(SelectorScore(top_signals[1]), SelectorScore(top_signals[2]))

\* a selected signal of confidence 1/3 left out of the result
C19_Witness ==
    /\ ReturnedNormally
    /\ result.signals # <<>>
    /\ \E k \in 1..Len(all_signals) :
           /\ RLt(R(3, 10), all_signals[k].signal.confidence)
           /\ RLt(all_signals[k].signal.confidence, R(4, 10))
           /\ all_signals[k].signal.symbol \notin ResultSymbols

\* floor of a rational
Floor(x) == x.n \div x.d

PriceRisk(signal) == RAbs(RSub(signal.entry_price, signal.stop_loss))

\* floor(risk_budget / price_risk)
RiskShares(signal, c) == Floor(RDiv(RiskBudget(c), PriceRisk(signal)))

\* floor(max_allowed_value / entry_price)
CapShares(signal, c) == Floor(RDiv(MaxAllowedValue(c), signal.entry_price))

Sizeable ==
    /\ hpc = "sized"
    /\ RLt(Z(0), arg.signal.entry_price)
    /\ ~IsZero(PriceRisk(arg.signal))
    /\ NonNegativeCaps(cfg)

\* C20: for a signal with entry_price > 0 and non-zero price risk the share
\* count is min(floor(risk_budget / price_risk), floor(max_allowed_value /
\* entry_price)); it differs from the risk-based count only when the risk-based
\* position value exceeds the cap, and then it is lower.
C20_SharesAreTheMinimum ==
    Sizeable =>
        \A p \in {ret.position_info, ret.position_sizing} :
            /\ p.shares = IF RiskShares(arg.signal, cfg) < CapShares(arg.signal, cfg)
                          THEN RiskShares(arg.signal, cfg) ELSE CapShares(arg.signal, cfg)
            /\ p.shares <= RiskShares(arg.signal, cfg)
            /\ p.shares # RiskShares(arg.signal, cfg) =>
                   /\ RLt(MaxAllowedValue(cfg),
                          RMul(Z(RiskShares(arg.signal, cfg)), arg.signal.entry_price))
                   /\ p.shares = CapShares(arg.signal, cfg)
            /\ p.position_value = RMul(Z(p.shares), arg.signal.entry_price)

\* entry 100, stop 97, risk 0.02, cap 0.10: 666 shares by risk, 100 by the cap
C20_Witness ==
    /\ Sizeable
    /\ cfg.max_risk_per_trade = R(2, 100)
    /\ cfg.max_position_size = R(10, 100)
    /\ arg.signal.entry_price = Z(100)
    /\ arg.signal.stop_loss = Z(97)
    /\ RiskShares(arg.signal, cfg) = 666
    /\ CapShares(arg.signal, cfg) = 100
    /\ ret.position_info.shares = 100

\* the risk budget binds: fewer shares by risk than the cap would allow
C20_RiskBound ==
    /\ Sizeable
    /\ RiskShares(arg.signal, cfg) > 0
    /\ RiskShares(arg.signal, cfg) < CapShares(arg.signal, cfg)
    /\ ret.position_info.shares = RiskShares(arg.signal, cfg)

----------------------------------------------------------------------------
(* The loop body of run_analysis (lines 48-56) run as one task per          *)
(* instrument, the tasks interleaved at the three calls of the body.        *)

MaxTasks == 2

TaskPool == {QGapUp, QVolSell, QWeak, QNullVolume}

TaskConfigs == {DefaultConfig, ConservativeConfig}

TaskUniverses == {WithSymbols(q) : q \in UNION {[1..n -> TaskPool] : n \in 1..MaxTasks}}

\* the locals of the loop body for one instrument, before its first call
NewTask == [pc |-> "todo", signals |-> <<>>, best_signal |-> NoSignal]

InitTasks ==
    /\ cfg \in TaskConfigs
    /\ config_trading_config = cfg
    /\ clock = 1
    /\ pc = "tasks" /\ run = 1 /\ quotes = <<>> /\ start_time = 0
    /\ stock_data \in TaskUniverses
    /\ idx = 0 /\ all_signals = <<>> /\ top_signals = <<>> /\ result = NoResult
    /\ first_result = NoResult /\ last_run_time = 0
    /\ arg = NoResult
    /\ ret = [i \in 1..Len(stock_data) |-> NewTask]
    /\ hpc = "tasks"

\* line 49: signals = self.strategy_manager.analyze_stock(data); the only call
\* of the body that reads the clock
TaskAnalyze(i) ==
    /\ hpc = "tasks"
    /\ i \in 1..Len(stock_data)
    /\ ret[i].pc = "todo"
    /\ ret' = [ret EXCEPT ![i] = [pc          |-> "analyzed",
                                  signals     |-> analyze_stock(stock_data[i], cfg, clock),
                                  best_signal |-> NoSignal]]
    /\ clock' = clock + 1
    /\ UNCHANGED <<cfgVars, botVars, arg, hpc>>

\* lines 50-52: if signals: best_signal = get_best_signal(signals)
TaskSelect(i) ==
    /\ hpc = "tasks"
    /\ i \in 1..Len(stock_data)
    /\ ret[i].pc = "analyzed"
    /\ ret' = [ret EXCEPT ![i] = [pc          |-> "selected",
                                  signals     |-> ret[i].signals,
                                  best_signal |-> IF ret[i].signals = <<>> THEN NoSignal
                                                  ELSE get_best_signal(ret[i].signals, cfg)]]
    /\ UNCHANGED <<cfgVars, clock, botVars, arg, hpc>>

\* the task's last call returned r: the new all_signals, or an exception
TaskSized(i, r) ==
    /\ all_signals' = IF IsRaise(r) THEN all_signals ELSE r.val
    /\ ret' = [ret EXCEPT ![i] = [pc          |-> IF IsRaise(r) THEN "failed" ELSE "sized",
                                  signals     |-> ret[i].signals,
                                  best_signal |-> ret[i].best_signal]]

\* lines 53-56: if best_signal: position_info = ...; all_signals.append(...)
TaskSize(i) ==
    /\ hpc = "tasks"
    /\ i \in 1..Len(stock_data)
    /\ ret[i].pc = "selected"
    /\ TaskSized(i, SizeBest(all_signals, ret[i].best_signal, stock_data[i], cfg))
    /\ UNCHANGED <<cfgVars, clock, pc, run, quotes, start_time, stock_data, idx, top_signals, result,
                   first_result, last_run_time, arg, hpc>>

NextTasks == \E i \in 1..MaxTasks : TaskAnalyze(i) \/ TaskSelect(i) \/ TaskSize(i)

SpecTasks == InitTasks /\ [][NextTasks]_vars

\* lines 47-56: the for loop over stock_data.items() in dict order, from the
\* list signals; an iteration that raises ends the loop
RECURSIVE LoopOver(_, _, _, _)
LoopFrom(rest, r, signals, c, now) ==
    IF IsRaise(r) THEN signals ELSE LoopOver(rest, r.val, c, now)

LoopOver(sd, signals, c, now) ==
    IF sd = <<>> THEN signals
    ELSE LoopFrom(Tail(sd), AnalyzeOne(Head(sd), signals, c, now), signals, c, now)

\* the run was abandoned after some but not all instruments had been evaluated
CancelledMidway == pc = "cancelled" /\ 1 < idx /\ idx <= Len(stock_data)

\* C21: a run abandoned between per-instrument evaluations hands the caller the
\* interrupting exception and no Result; every Result that is returned without
\* an error was built after the loop had evaluated every instrument, from all
\* of all_signals, and a Result returned before that carries no signal.
C21_CancelledRunHasNoResult ==
    /\ pc = "cancelled" => (IsRaise(result) /\ result.exc \in Interrupts)
    /\ ReturnedNormally =>
           /\ idx > Len(stock_data)
           /\ result.summary.total_stocks_analyzed = Len(stock_data)
           /\ top_signals = RankAndCut(valid_signals(all_signals, cfg))
           /\ Len(result.signals) = Len(top_signals)
    /\ (pc = "done" /\ idx <= Len(stock_data)) =>
           (result.signals = <<>> /\ "error" \in DOMAIN result.summary)

\* abandoned with signals already collected and instruments still waiting
C21_Witness ==
    /\ CancelledMidway
    /\ all_signals # <<>>
    /\ valid_signals(all_signals, cfg) # <<>>
    /\ IsRaise(result)
    /\ last_run_time = 0

\* a StrategySignal without the time of its construction
UntimedSignal(sig) == [k \in DOMAIN sig \ {"timestamp"} |-> sig[k]]

UntimedSignals(signals) == [k \in 1..Len(signals) |-> UntimedSignal(signals[k])]

\* an entry of all_signals without the time of its signal's construction
Untimed(t) ==
    [signal |-> UntimedSignal(t.signal), data |-> t.data, position_info |-> t.position_info]

UntimedEntries(signals) == {Untimed(signals[k]) : k \in 1..Len(signals)}

\* the entries of all_signals that belong to the instrument data
EntriesOf(signals, data) ==
    {Untimed(signals[k]) : k \in {j \in 1..Len(signals) : signals[j].data.symbol = data.symbol}}

\* what the loop body computes for one instrument evaluated alone
AloneCandidates(data, c) == UntimedSignals(analyze_stock(data, c, 0))

AloneEntries(data, c) == UntimedEntries(AnalyzeOne(data, <<>>, c, 0).val)

AllSized == \A i \in 1..Len(stock_data) : ret[i].pc = "sized"

\* the candidates, the selection and the sized entry a task has computed are
\* those of its instrument evaluated alone
TaskAsAlone(i) ==
    /\ ret[i].pc # "todo" =>
           UntimedSignals(ret[i].signals) = AloneCandidates(stock_data[i], cfg)
    /\ ret[i].pc \in {"selected", "sized"} =>
           IF AloneEntries(stock_data[i], cfg) = {}
           THEN ret[i].best_signal = NoSignal
           ELSE \E e \in AloneEntries(stock_data[i], cfg) :
                    UntimedSignal(ret[i].best_signal) = e.signal
    /\ EntriesOf(all_signals, stock_data[i]) =
           IF ret[i].pc = "sized" THEN AloneEntries(stock_data[i], cfg) ELSE {}

\* C22: whatever the order and interleaving in which the instruments of a
\* universe are evaluated, the candidates, the selected signal and the sized
\* position of each instrument (the time of construction of the signal left
\* aside) are those of that instrument evaluated alone at another time, and
\* once every instrument is evaluated the collected selections are those the
\* sequential loop of run_analysis collects.
C22_PerInstrumentSelection ==
    hpc = "tasks" =>
        /\ \A i \in 1..Len(stock_data) : TaskAsAlone(i)
        /\ AllSized => UntimedEntries(all_signals) =
                           UntimedEntries(LoopOver(stock_data, <<>>, cfg, 0))

\* two instruments evaluated against the order of the universe, the second
\* one started, selected and sized before the first one was sized
C22_Witness ==
    /\ hpc = "tasks"
    /\ Len(stock_data) = 2
    /\ AllSized
    /\ Len(all_signals) = 2
    /\ all_signals[1].data.symbol = 2
    /\ all_signals[2].data.symbol = 1
    /\ all_signals[1].signal.timestamp < all_signals[2].signal.timestamp
    /\ all_signals[1].signal.strategy_name = all_signals[2].signal.strategy_name

\* a step of one task leaves the snapshots, the other tasks' locals and the
\* entries already in all_signals as they are
C22_StepTouchesOwnTaskOnly ==
    [][hpc = "tasks" =>
         /\ stock_data' = stock_data
         /\ Cardinality({i \in 1..Len(stock_data) : ret'[i] # ret[i]}) <= 1
         /\ Len(all_signals') >= Len(all_signals)
         /\ SubSeq(all_signals', 1, Len(all_signals)) = all_signals]_vars

\* strategies.py lines 90-106, 159-163, 165-169 and 230-235: the branches with
\* a target twice as far from the entry as the stop
TwoToOneBranch(out, sd) ==
    \/ /\ out.strategy_name = "Gap Momentum"
       /\ out.signal_type = "BUY"
       /\ Levels(out, sd, R(97, 100), R(106, 100))
    \/ /\ out.strategy_name = "Volume Breakout"
       /\ out.signal_type = "BUY"
       /\ Levels(out, sd, R(96, 100), R(108, 100))
    \/ /\ out.strategy_name = "Volume Breakout"
       /\ out.signal_type = "SELL"
       /\ Levels(out, sd, R(104, 100), R(92, 100))
    \/ /\ out.strategy_name = "Premarket Momentum"
       /\ out.signal_type = "BUY"
       /\ Levels(out, sd, R(97, 100), R(106, 100))

\* strategies.py lines 109-128 and 237-243: the gap-down bounce (8/5) and the
\* premarket reversal (9/6)
CounterTrendBranch(out, sd) ==
    \/ /\ out.strategy_name = "Gap Momentum"
       /\ Levels(out, sd, R(95, 100), R(108, 100))
       /\ out.risk_reward_ratio = R(8, 5)
    \/ /\ out.strategy_name = "Premarket Momentum"
       /\ Levels(out, sd, R(94, 100), R(109, 100))
       /\ out.risk_reward_ratio = R(9, 6)

\* strategy name returned a counter-trend signal that is confident enough for
\* the registry
CounterTrendOffered(name, sd, c, now) ==
    /\ Analyze(name, sd, c, now).kind = "signal"
    /\ CounterTrendBranch(Analyze(name, sd, c, now), sd)
    /\ RLt(R(3, 10), Analyze(name, sd, c, now).confidence)

\* C23: under the default configuration every signal analyze_stock lets
\* through comes from a branch with reward/risk exactly 2 (gap up, volume
\* breakout BUY or SELL, positive premarket move), every SELL comes from
\* Volume Breakout, and no signal of the gap-down branch (8/5) or of the
\* negative premarket branch (9/6) is let through.
C23_DefaultKeepsTwoToOne ==
    (hpc = "analyzed" /\ cfg = DefaultConfig) =>
        \A i \in 1..Len(ret.signals) :
            /\ ret.signals[i].risk_reward_ratio = Z(2)
            /\ TwoToOneBranch(ret.signals[i], arg)
            /\ ~CounterTrendBranch(ret.signals[i], arg)
            /\ ret.signals[i].signal_type = "SELL" =>
                   ret.signals[i].strategy_name = "Volume Breakout"

\* a gap of -5% on 3.5x volume with a premarket move of -3%: the bounce and
\* the reversal are both offered with confidence above 0.3 and both dropped,
\* the Volume Breakout SELL alone is let through
C23_Witness ==
    /\ hpc = "analyzed"
    /\ cfg = DefaultConfig
    /\ CounterTrendOffered("Gap Momentum", arg, cfg, clock)
    /\ CounterTrendOffered("Premarket Momentum", arg, cfg, clock)
    /\ Len(ret.signals) = 1
    /\ ret.signals[1].strategy_name = "Volume Breakout"
    /\ ret.signals[1].signal_type = "SELL"
    /\ ret.signals[1].risk_reward_ratio = Z(2)

\* the same on the Result of run_analysis: its records and the signals behind
\* them
C23_ResultRecordsTwoToOne ==
    (ReturnedNormally /\ cfg = DefaultConfig) =>
        \A i \in 1..Len(result.signals) :
            /\ result.signals[i].risk_reward_ratio = Z(2)
            /\ top_signals[i].signal.risk_reward_ratio = Z(2)
            /\ TwoToOneBranch(top_signals[i].signal, top_signals[i].data)
            /\ result.signals[i].signal_type = "SELL" =>
                   result.signals[i].strategy = "Volume Breakout"

====
